---- MODULE Spec2Model ----
(***************************************************************************)
(* Illuminator Central billing processor (src/billing_processor.py) and    *)
(* the processing flow of its web front end (src/streamlit_app.py, tab1).  *)
(*                                                                         *)
(* Units.  Timestamps are whole seconds since an epoch day 0, 00:00:00;    *)
(* the rated power is in hundredths of a kW; a rate is in thousandths of a *)
(* dollar per kWh; a cost is in cents.  Floating point arithmetic is       *)
(* modelled by exact rational arithmetic, and Python's round() by          *)
(* round-half-to-even on the exact value.                                  *)
(***************************************************************************)
EXTENDS Integers, Sequences, FiniteSets, TLC

VARIABLES
    rate_per_kwh,       \* processor field: override rate, or None
    scenario_to_area,   \* processor field: scenario key -> bookable area
    composite_rules,    \* processor field: scenario key -> rule record
    uploaded_file,      \* the CSV file: its columns and its rows
    df,                 \* the DataFrame built by parse_illuminator_csv
    phase,              \* position of the run
    via,                \* who made the last generate call: "app" (tab1) or "api"
    unmapped,           \* last result of find_unmapped_scenarios
    annotated,          \* events of the last generate run, after overlap detection
    summaries,          \* last result of generate_daily_summaries
    first_summaries,    \* result of the first generate run on this table
    runs                \* number of generate runs on this table

vars == <<rate_per_kwh, scenario_to_area, composite_rules, uploaded_file, df,
          phase, via, unmapped, annotated, summaries, first_summaries, runs>>

-----------------------------------------------------------------------------
(* Special values *)

None == [kind |-> "none", v |-> 0]        \* Python None (no override rate)
Num(x) == [kind |-> "num", v |-> x]       \* a float that is a number
NaN == [kind |-> "nan", v |-> 0]          \* float('nan')
Absent == [kind |-> "absent", v |-> 0]    \* the key is not in the dict
NaNStr == "<NaN>"                         \* a missing value in a text column

-----------------------------------------------------------------------------
(* Bounds *)

MaxRows == 3          \* rows of the uploaded file
MaxRuns == 2          \* generate_daily_summaries calls on one table

-----------------------------------------------------------------------------
(* Arithmetic *)

\* Python round(): n/d rounded to the nearest integer, ties to the even one.
RoundHalfEven(n, d) ==
    LET q == n \div d
        r == n % d
    IN  IF 2 * r < d THEN q
        ELSE IF 2 * r > d THEN q + 1
        ELSE IF q % 2 = 0 THEN q ELSE q + 1

Max(a, b) == IF a >= b THEN a ELSE b
Min(a, b) == IF a <= b THEN a ELSE b

RECURSIVE SumSeq(_)
SumSeq(s) == IF s = <<>> THEN 0 ELSE Head(s) + SumSeq(Tail(s))

\* float addition and round(x, 2) of an amount in cents: NaN propagates
AddF(a, b) == IF a = NaN \/ b = NaN THEN NaN ELSE Num(a.v + b.v)

RECURSIVE SumF(_)
SumF(s) == IF s = <<>> THEN Num(0) ELSE AddF(Head(s), SumF(Tail(s)))

-----------------------------------------------------------------------------
(* Text.  A cell of the file that the code searches, trims or parses is a   *)
(* sequence of pieces: "-", " ", "$", "." and the digits are single         *)
(* characters, "Total" is the literal substring the filter looks for.      *)
(* pandas reads an empty cell as a missing value: <<>> is a missing cell.   *)

RECURSIVE Join(_)
Join(ps) == IF ps = <<>> THEN "" ELSE Head(ps) \o Join(Tail(ps))

RECURSIVE LStrip(_, _)
LStrip(ps, chars) ==
    IF ps # <<>> /\ Head(ps) \in chars THEN LStrip(Tail(ps), chars) ELSE ps

RECURSIVE RStrip(_, _)
RStrip(ps, chars) ==
    IF ps # <<>> /\ ps[Len(ps)] \in chars
    THEN RStrip(SubSeq(ps, 1, Len(ps) - 1), chars) ELSE ps

\* str.strip(chars)
Strip(ps, chars) == RStrip(LStrip(ps, chars), chars)

\* str.contains('Total', na=False)
ContainsTotal(club) == \E i \in 1..Len(club) : club[i] = "Total"

\* str.replace('$', '', regex=False)
RemoveDollar(cell) == SelectSeq(cell, LAMBDA c : c # "$")

Digits == <<"0", "1", "2", "3", "4", "5", "6", "7", "8", "9">>
IsDigit(c) == \E i \in 1..10 : Digits[i] = c
DigitVal(c) == (CHOOSE i \in 1..10 : Digits[i] = c) - 1

RECURSIVE Pow10(_)
Pow10(n) == IF n <= 0 THEN 1 ELSE 10 * Pow10(n - 1)

RECURSIVE DigitsVal(_)
DigitsVal(ds) ==
    IF ds = <<>> THEN 0 ELSE 10 * DigitsVal(SubSeq(ds, 1, Len(ds) - 1)) + DigitVal(ds[Len(ds)])

\* pd.to_numeric(errors='coerce') on a cell of characters: digits with at most
\* one decimal point give the number, in thousandths (the cells of the model
\* have at most three decimals); anything else, the empty cell included, NaN.
ToNumeric(cell) ==
    LET dots == {i \in 1..Len(cell) : cell[i] = "."}
        ok == /\ cell # <<>>
              /\ \A i \in 1..Len(cell) : IsDigit(cell[i]) \/ cell[i] = "."
              /\ Cardinality(dots) <= 1
              /\ \E i \in 1..Len(cell) : IsDigit(cell[i])
        dot == IF dots = {} THEN Len(cell) + 1 ELSE CHOOSE i \in dots : TRUE
        ip == SubSeq(cell, 1, dot - 1)
        fp == SubSeq(cell, dot + 1, Len(cell))
    IN  IF ~ok THEN NaN
        ELSE Num(DigitsVal(ip) * 1000 + DigitsVal(fp) * Pow10(3 - Len(fp)))

-----------------------------------------------------------------------------
(* Time.  A timestamp cell 'DD/MM/YYYY HH:MM:SS' is <<day, hour, minute,    *)
(* second>>, the day counted from the epoch day; a cell with another number *)
(* of fields, or a field out of range, does not match the format.           *)

MatchesFormat(cell) ==
    /\ Len(cell) = 4
    /\ cell[1] >= 0 /\ cell[2] \in 0..23 /\ cell[3] \in 0..59 /\ cell[4] \in 0..59

\* pd.to_datetime(format='%d/%m/%Y %H:%M:%S') of a cell that matches
ToDatetime(cell) == cell[1] * 86400 + cell[2] * 3600 + cell[3] * 60 + cell[4]

\* Timestamp.dt.date: the calendar day of a timestamp
DateOf(t) == t \div 86400

\* strftime('%H:%M'): minutes since midnight, seconds dropped
HHMM(t) == (t % 86400) \div 60

-----------------------------------------------------------------------------
(* parse_illuminator_csv *)

RequiredColumns ==
    {"Club", "Facility", "Lighting", "Turn on", "Turn off", "Rated power (kW)"}

\* df[df['Club'].notna() & ~df['Club'].str.contains('Total', na=False)] and
\* df[df['Turn on'].notna()]: whether the row is kept
KeepRow(raw) ==
    /\ raw.Club # <<>>
    /\ ~ContainsTotal(raw.Club)
    /\ raw.TurnOn # <<>>

\* whether to_datetime raises on the row (a missing cell becomes NaT, no error)
BadTimestamp(raw) ==
    \/ ~MatchesFormat(raw.TurnOn)
    \/ (raw.TurnOff # <<>> /\ ~MatchesFormat(raw.TurnOff))

\* df['Facility'] + ' - ' + df['Lighting'].str.strip('-')
ScenarioKey(facility, lighting) ==
    IF lighting = <<>> THEN NaNStr
    ELSE facility \o " - " \o Join(Strip(lighting, {"-"}))

\* (mutant) the date of the row is the day of 'Turn off'
NormalizeRowDatedByTurnOff(raw, cols) ==
    [ Club       |-> Join(raw.Club),
      Facility   |-> raw.Facility,
      Lighting   |-> raw.Lighting,
      TurnOn     |-> ToDatetime(raw.TurnOn),
      TurnOffNaT |-> raw.TurnOff = <<>>,
      TurnOff    |-> IF raw.TurnOff = <<>> THEN 0 ELSE ToDatetime(raw.TurnOff),
      Power      |-> raw.Power,
      Date       |-> IF raw.TurnOff = <<>> THEN 0 ELSE DateOf(ToDatetime(raw.TurnOff)),
      Scenario   |-> ScenarioKey(raw.Facility, raw.Lighting),
      Rate       |-> IF "Cost/kWh" \in cols THEN ToNumeric(RemoveDollar(raw.Cost))
                     ELSE Absent ]

\* the row of the DataFrame made from a kept row of the file
NormalizeRow(raw, cols) ==
    [ Club       |-> Join(raw.Club),
      Facility   |-> raw.Facility,
      Lighting   |-> raw.Lighting,
      TurnOn     |-> ToDatetime(raw.TurnOn),
      TurnOffNaT |-> raw.TurnOff = <<>>,
      TurnOff    |-> IF raw.TurnOff = <<>> THEN 0 ELSE ToDatetime(raw.TurnOff),
      Power      |-> raw.Power,
      Date       |-> DateOf(ToDatetime(raw.TurnOn)),
      Scenario   |-> ScenarioKey(raw.Facility, raw.Lighting),
      Rate       |-> IF "Cost/kWh" \in cols THEN ToNumeric(RemoveDollar(raw.Cost))
                     ELSE Absent ]

-----------------------------------------------------------------------------
(* find_unmapped_scenarios *)

Mapped(scenario) == scenario \in DOMAIN scenario_to_area

\* the rows that count: pd.notna(scenario) and scenario not in scenario_to_area
IsUnmappedRow(row) == row.Scenario # NaNStr /\ ~Mapped(row.Scenario)

\* scenario_counts after the loop, as the list of its values in insertion order
RECURSIVE ScenarioCounts(_)
ScenarioCounts(rows) ==
    IF rows = <<>> THEN <<>>
    ELSE LET init == ScenarioCounts(SubSeq(rows, 1, Len(rows) - 1))
             row == rows[Len(rows)]
         IN  IF ~IsUnmappedRow(row) THEN init
             ELSE IF \E k \in 1..Len(init) : init[k].scenario = row.Scenario
             THEN [k \in 1..Len(init) |->
                     IF init[k].scenario = row.Scenario
                     THEN [init[k] EXCEPT !.count = @ + 1] ELSE init[k]]
             ELSE Append(init, [scenario |-> row.Scenario,
                                facility |-> row.Facility, count |-> 1])

\* (mutant) reverse=True forgotten: ascending counts
InsertByCountAscending(sorted, e) ==
    LET n == Cardinality({k \in 1..Len(sorted) : sorted[k].count <= e.count})
    IN  SubSeq(sorted, 1, n) \o <<e>> \o SubSeq(sorted, n + 1, Len(sorted))

\* sorted(..., key=count, reverse=True): a stable sort, so entries of equal
\* count keep their order (insertion into an already sorted list, after the
\* entries whose count is at least as large)
InsertByCount(sorted, e) ==
    LET n == Cardinality({k \in 1..Len(sorted) : sorted[k].count >= e.count})
    IN  SubSeq(sorted, 1, n) \o <<e>> \o SubSeq(sorted, n + 1, Len(sorted))

RECURSIVE SortByCountDesc(_)
SortByCountDesc(s) ==
    IF s = <<>> THEN <<>>
    ELSE InsertByCount(SortByCountDesc(SubSeq(s, 1, Len(s) - 1)), s[Len(s)])

find_unmapped_scenarios(rows) == SortByCountDesc(ScenarioCounts(rows))

-----------------------------------------------------------------------------
(* detect_overlapping_scenarios *)

Range(f) == {f[k] : k \in DOMAIN f}

\* (mutant) the dict of an earlier run is used again, with its redundant periods
EventKeptAcrossRuns(i) ==
    IF \E k \in 1..Len(annotated) : annotated[k].idx = i
    THEN annotated[CHOOSE k \in 1..Len(annotated) : annotated[k].idx = i]
    ELSE [idx |-> i, row |-> df[i], redundant_periods |-> <<>>]

\* club_data.to_dict('records'): a new dict per row, without the key
\* 'redundant_periods' (<<>> stands for the missing key); idx is the position
\* of the row in the table
Event(i) == [idx |-> i, row |-> df[i], redundant_periods |-> <<>>]

\* (mutant) a rule always includes its own scenario
IncludesOwnScenario(scenario) ==
    LET rule == composite_rules[scenario]
    IN  IF "includes" \in DOMAIN rule THEN Append(rule.includes, scenario)
        ELSE <<scenario>>

\* self.composite_rules[scenario].get('includes', []) for a rule that is a dict
Includes(scenario) ==
    LET rule == composite_rules[scenario]
    IN  IF "includes" \in DOMAIN rule THEN rule.includes ELSE <<>>

OverlapStart(e, o) == Max(e.row.TurnOn, o.row.TurnOn)
OverlapEnd(e, o) == Min(e.row.TurnOff, o.row.TurnOff)

\* (mutant) touching intervals count as an overlap
OverlapsOrTouches(e, o) ==
    Max(e.row.TurnOn, o.row.TurnOn) <= Min(e.row.TurnOff, o.row.TurnOff)

\* if overlap_start < overlap_end
Overlaps(e, o) == OverlapStart(e, o) < OverlapEnd(e, o)

\* (mutant) the includes list of the rule is not consulted
MarksWhateverOverlaps(e, o) ==
    /\ e.row.Scenario \in DOMAIN composite_rules
    /\ Max(e.row.TurnOn, o.row.TurnOn) < Min(e.row.TurnOff, o.row.TurnOff)

\* (mutant) either of the two rules makes event e mark event o
MarksEitherDirection(e, o) ==
    /\ \/ /\ e.row.Scenario \in DOMAIN composite_rules
          /\ o.row.Scenario \in Range(Includes(e.row.Scenario))
       \/ /\ o.row.Scenario \in DOMAIN composite_rules
          /\ e.row.Scenario \in Range(Includes(o.row.Scenario))
    /\ Max(e.row.TurnOn, o.row.TurnOn) < Min(e.row.TurnOff, o.row.TurnOff)

\* event e marks a period of event o redundant
Marks(e, o) ==
    /\ e.row.Scenario \in DOMAIN composite_rules
    /\ o.row.Scenario \in Range(Includes(e.row.Scenario))
    /\ Overlaps(e, o)

\* (mutant) the period is the whole session of the superseding event
PeriodNotClipped(e, o) ==
    [ start  |-> e.row.TurnOn,
      end    |-> e.row.TurnOff,
      reason |-> "Included in " \o e.row.Scenario ]

Period(e, o) ==
    [ start  |-> OverlapStart(e, o),
      end    |-> OverlapEnd(e, o),
      reason |-> "Included in " \o e.row.Scenario ]

\* the periods appended to events[j] by events[1..n], in the order of the loop
RECURSIVE Appended(_, _, _)
Appended(events, j, n) ==
    IF n = 0 THEN <<>>
    ELSE LET before == Appended(events, j, n - 1)
         IN  IF n # j /\ Marks(events[n], events[j])
             THEN Append(before, Period(events[n], events[j]))
             ELSE before

detect_overlapping_scenarios(events) ==
    [ j \in 1..Len(events) |->
        [ events[j] EXCEPT !.redundant_periods =
            @ \o Appended(events, j, Len(events)) ] ]

-----------------------------------------------------------------------------
(* calculate_billable_duration *)

TotalSeconds(event) == event.row.TurnOff - event.row.TurnOn

RECURSIVE RedundantSeconds(_)
RedundantSeconds(periods) ==
    IF periods = <<>> THEN 0
    ELSE (Head(periods).end - Head(periods).start) + RedundantSeconds(Tail(periods))

Note(period) ==
    [ from |-> HHMM(period.start), to |-> HHMM(period.end), reason |-> period.reason ]

\* (mutant) the billable time is never less than 0
calculate_billable_duration_clamped(event) ==
    IF event.redundant_periods = <<>>
    THEN [ billable  |-> Max(0, RoundHalfEven(TotalSeconds(event), 60)),
           redundant |-> 0,
           notes     |-> <<>> ]
    ELSE LET red == RedundantSeconds(event.redundant_periods)
         IN  [ billable  |-> Max(0, RoundHalfEven(TotalSeconds(event) - red, 60)),
               redundant |-> RoundHalfEven(red, 60),
               notes     |-> [ k \in 1..Len(event.redundant_periods) |->
                                 Note(event.redundant_periods[k]) ] ]

calculate_billable_duration(event) ==
    IF event.redundant_periods = <<>>
    THEN [ billable  |-> RoundHalfEven(TotalSeconds(event), 60),
           redundant |-> 0,
           notes     |-> <<>> ]
    ELSE LET red == RedundantSeconds(event.redundant_periods)
         IN  [ billable  |-> RoundHalfEven(TotalSeconds(event) - red, 60),
               redundant |-> RoundHalfEven(red, 60),
               notes     |-> [ k \in 1..Len(event.redundant_periods) |->
                                 Note(event.redundant_periods[k]) ] ]

-----------------------------------------------------------------------------
(* create_combined_summary *)

FallbackRate == 263

\* event.get('Cost/kWh', 0.263): the default only when the key is missing
RowRate(event) ==
    IF event.row.Rate = Absent THEN Num(FallbackRate) ELSE event.row.Rate

EffectiveRate(event) ==
    IF rate_per_kwh # None THEN rate_per_kwh ELSE RowRate(event)

\* round(billable_hours * power * rate, 2), in cents
CostOf(minutes, power, rate) ==
    IF rate = NaN THEN NaN
    ELSE Num(RoundHalfEven(minutes * power * rate.v, 60000))

\* (mutant) the cost is that of the billable time before it is rounded
EventCostOfExactDuration(event) ==
    IF EffectiveRate(event) = NaN THEN NaN
    ELSE Num(RoundHalfEven((TotalSeconds(event) - RedundantSeconds(event.redundant_periods))
                             * event.row.Power * EffectiveRate(event).v, 3600000))

EventCost(event) ==
    CostOf(calculate_billable_duration(event).billable, event.row.Power,
           EffectiveRate(event))

\* scenario_name: str(Lighting).strip('-').strip()
ScenarioName(event) ==
    IF event.row.Lighting = <<>> THEN "Unknown"
    ELSE Join(Strip(Strip(event.row.Lighting, {"-"}), {" "}))

\* what a line of the summaries says about one event
Item(event) ==
    LET calc == calculate_billable_duration(event)
    IN  [ idx       |-> event.idx,
          name      |-> ScenarioName(event),
          start     |-> HHMM(event.row.TurnOn),
          end       |-> HHMM(event.row.TurnOff),
          minutes   |-> calc.billable,
          redundant |-> calc.redundant,
          cost      |-> EventCost(event) ]

RECURSIVE EarliestStart(_)
EarliestStart(events) ==
    IF Len(events) = 1 THEN events[1].row.TurnOn
    ELSE LET e == EarliestStart(SubSeq(events, 1, Len(events) - 1))
             t == events[Len(events)].row.TurnOn
         IN  IF t < e THEN t ELSE e

\* (mutant) the ends are compared by their time of day
RECURSIVE LatestEndByTimeOfDay(_)
LatestEndByTimeOfDay(events) ==
    IF Len(events) = 1 THEN events[1].row.TurnOff
    ELSE LET e == LatestEndByTimeOfDay(SubSeq(events, 1, Len(events) - 1))
             t == events[Len(events)].row.TurnOff
         IN  IF HHMM(t) > HHMM(e) THEN t ELSE e

RECURSIVE LatestEnd(_)
LatestEnd(events) ==
    IF Len(events) = 1 THEN events[1].row.TurnOff
    ELSE LET e == LatestEnd(SubSeq(events, 1, Len(events) - 1))
             t == events[Len(events)].row.TurnOff
         IN  IF t > e THEN t ELSE e

\* (mutant) the short line lists every event that is not billed a negative time
create_combined_summary_short_with_zero(date, club, area, events) ==
    LET items == [k \in 1..Len(events) |-> Item(events[k])]
        total_cost == SumF([k \in 1..Len(items) |-> items[k].cost])
    IN  [ Date      |-> date,
          Club      |-> club,
          Area      |-> area,
          Facility  |-> events[1].row.Facility,
          StartTime |-> HHMM(EarliestStart(events)),
          EndTime   |-> HHMM(LatestEnd(events)),
          Duration  |-> SumSeq([k \in 1..Len(items) |-> items[k].minutes]),
          Detailed  |-> items,
          Short     |-> SelectSeq(items, LAMBDA it : it.minutes >= 0),
          TotalCost |-> total_cost ]

create_combined_summary(date, club, area, events) ==
    LET items == [k \in 1..Len(events) |-> Item(events[k])]
        total_cost == SumF([k \in 1..Len(items) |-> items[k].cost])
    IN  [ Date      |-> date,
          Club      |-> club,
          Area      |-> area,
          Facility  |-> events[1].row.Facility,
          StartTime |-> HHMM(EarliestStart(events)),
          EndTime   |-> HHMM(LatestEnd(events)),
          Duration  |-> SumSeq([k \in 1..Len(items) |-> items[k].minutes]),
          Detailed  |-> items,
          Short     |-> SelectSeq(items, LAMBDA it : it.minutes > 0),
          TotalCost |-> total_cost ]

-----------------------------------------------------------------------------
(* generate_daily_summaries *)

\* the club names of the model in the order a sort puts them
ClubsSorted == <<"Eagles", "Hawks">>
ClubRank(c) == CHOOSE k \in 1..Len(ClubsSorted) : ClubsSorted[k] = c

KeyLess(a, b) ==
    \/ a[1] < b[1]
    \/ a[1] = b[1] /\ ClubRank(a[2]) < ClubRank(b[2])

\* df.groupby(['Date', 'Club']): the group keys, sorted
RECURSIVE SortedKeys(_)
SortedKeys(keys) ==
    IF keys = {} THEN <<>>
    ELSE LET least == CHOOSE a \in keys : \A b \in keys \ {a} : KeyLess(a, b)
         IN  <<least>> \o SortedKeys(keys \ {least})

GroupKeys == SortedKeys({<<df[i].Date, df[i].Club>> : i \in 1..Len(df)})

\* the events of one group, in table order
GroupEvents(key) ==
    LET idxs == SelectSeq([i \in 1..Len(df) |-> i],
                          LAMBDA i : df[i].Date = key[1] /\ df[i].Club = key[2])
    IN  [k \in 1..Len(idxs) |-> Event(idxs[k])]

\* self.scenario_to_area.get(event['Scenario'], event['Facility'])
AreaOf(event) ==
    IF Mapped(event.row.Scenario) THEN scenario_to_area[event.row.Scenario]
    ELSE event.row.Facility

\* the keys of area_groups, in insertion order
RECURSIVE AreasInOrder(_)
AreasInOrder(events) ==
    IF events = <<>> THEN <<>>
    ELSE LET before == AreasInOrder(SubSeq(events, 1, Len(events) - 1))
             area == AreaOf(events[Len(events)])
         IN  IF area \in Range(before) THEN before ELSE Append(before, area)

\* (mutant) every area's summary is made of all the events of the group
GroupSummariesUnfiltered(key, events) ==
    LET areas == AreasInOrder(events)
    IN  [a \in 1..Len(areas) |->
           create_combined_summary(key[1], key[2], areas[a], events)]

GroupSummaries(key, events) ==
    LET areas == AreasInOrder(events)
    IN  [a \in 1..Len(areas) |->
           create_combined_summary(key[1], key[2], areas[a],
               SelectSeq(events, LAMBDA e : AreaOf(e) = areas[a]))]

\* the loop over the groups: the events after overlap detection and the
\* summaries appended so far
RECURSIVE GenerateOver(_)
GenerateOver(keys) ==
    IF keys = <<>> THEN [events |-> <<>>, summaries |-> <<>>]
    ELSE LET before == GenerateOver(SubSeq(keys, 1, Len(keys) - 1))
             key == keys[Len(keys)]
             events == detect_overlapping_scenarios(GroupEvents(key))
         IN  [events    |-> before.events \o events,
              summaries |-> before.summaries \o GroupSummaries(key, events)]

generate_daily_summaries == GenerateOver(GroupKeys)

\* int(round(nan)) raises: a row whose 'Turn off' is NaT makes the run fail
GenerateRaises == \E i \in 1..Len(df) : df[i].TurnOffNaT

-----------------------------------------------------------------------------
(* Operations *)

\* parse_illuminator_csv: the whole table, or a ValueError
ParseResult(file) ==
    LET kept == SelectSeq(file.rows, KeepRow)
    IN  IF ~(RequiredColumns \subseteq file.columns) THEN [ok |-> FALSE, df |-> <<>>]
        ELSE IF file.rows = <<>> \/ kept = <<>> THEN [ok |-> FALSE, df |-> <<>>]
        ELSE IF \E k \in 1..Len(kept) : BadTimestamp(kept[k])
        THEN [ok |-> FALSE, df |-> <<>>]
        ELSE [ok |-> TRUE,
              df |-> [k \in 1..Len(kept) |-> NormalizeRow(kept[k], file.columns)]]

ParseCsv ==
    /\ phase = "upload"
    /\ LET res == ParseResult(uploaded_file)
       IN  /\ df' = res.df
           /\ phase' = IF res.ok THEN "parsed" ELSE "invalid"
    /\ UNCHANGED <<rate_per_kwh, scenario_to_area, composite_rules, uploaded_file,
                   via, unmapped, annotated, summaries, first_summaries, runs>>

\* processor.find_unmapped_scenarios(df)
FindUnmapped ==
    /\ phase = "parsed"
    /\ unmapped' = find_unmapped_scenarios(df)
    /\ phase' = "audited"
    /\ UNCHANGED <<rate_per_kwh, scenario_to_area, composite_rules, uploaded_file,
                   df, via, annotated, summaries, first_summaries, runs>>

\* the effect of one call of generate_daily_summaries(df)
RunGenerate(who) ==
    /\ via' = who
    /\ runs' = runs + 1
    /\ IF GenerateRaises
       THEN /\ phase' = "crashed"
            /\ UNCHANGED <<annotated, summaries, first_summaries>>
       ELSE LET res == generate_daily_summaries
            IN  /\ phase' = "done"
                /\ annotated' = res.events
                /\ summaries' = res.summaries
                /\ first_summaries' = IF runs = 0 THEN res.summaries
                                      ELSE first_summaries
    /\ UNCHANGED <<rate_per_kwh, scenario_to_area, composite_rules, uploaded_file,
                   df, unmapped>>

\* (mutant) the app generates the summaries whatever the audit found
AppProcessUngated ==
    /\ phase = "audited"
    /\ runs = 0
    /\ RunGenerate("app")

\* tab1 of the app after the audit: strict mode blocks while the gap list is
\* not empty, otherwise the summaries are generated
AppProcess ==
    /\ phase = "audited"
    /\ runs = 0
    /\ IF unmapped # <<>>
       THEN /\ phase' = "blocked"
            /\ UNCHANGED <<rate_per_kwh, scenario_to_area, composite_rules,
                           uploaded_file, df, via, unmapped, annotated, summaries,
                           first_summaries, runs>>
       ELSE RunGenerate("app")

\* a direct call of the processor's method, with or without an audit before
Generate ==
    /\ phase \in {"parsed", "audited", "done"}
    /\ via # "app"
    /\ runs < MaxRuns
    /\ RunGenerate("api")

Next == ParseCsv \/ FindUnmapped \/ AppProcess \/ Generate

-----------------------------------------------------------------------------
(* Inputs *)

\* all files of at most n rows drawn from rows
Files(cols, rows, n) ==
    {[columns |-> cols, rows |-> r] : r \in UNION {[1..k -> rows] : k \in 0..n}}

Raw(club, facility, lighting, on, off, power, cost) ==
    [ Club |-> club, Facility |-> facility, Lighting |-> lighting,
      TurnOn |-> on, TurnOff |-> off, Power |-> power, Cost |-> cost ]

Start(file) ==
    /\ uploaded_file = file
    /\ df = <<>>
    /\ phase = "upload"
    /\ via = "none"
    /\ unmapped = <<>>
    /\ annotated = <<>>
    /\ summaries = <<>>
    /\ first_summaries = <<>>
    /\ runs = 0

Key50 == "Park - North 50 lux"
Key100 == "Park - North 100 lux"

FieldMapping == (Key50 :> "Field 1") @@ (Key100 :> "Field 1")
LuxRules == (Key100 :> [includes |-> <<Key50>>, power_kw |-> 167])

\* one club, one day: the sessions between 09:00:00 and 09:02:30 on a grid
\* that has half minutes, and one session that ends before it starts
OverlapInstants == {<<0, 9, 0, 0>>, <<0, 9, 0, 30>>, <<0, 9, 1, 0>>, <<0, 9, 2, 30>>}

OverlapSessions ==
    {s \in OverlapInstants \X OverlapInstants : ToDatetime(s[1]) < ToDatetime(s[2])}
        \cup {<< <<0, 9, 1, 0>>, <<0, 9, 0, 0>> >>}

OverlapRows ==
    { Raw(<<"Eagles">>, "Park", l, s[1], s[2], 1200, <<>>) :
        l \in {<<"North 50 lux">>, <<"-", "North 100 lux", "-">>},
        s \in OverlapSessions }

InitOverlap ==
    /\ rate_per_kwh = Num(263)
    /\ scenario_to_area = FieldMapping
    /\ composite_rules = LuxRules
    /\ \E f \in Files(RequiredColumns, OverlapRows, MaxRows) : Start(f)

Spec == InitOverlap /\ [][Next]_vars

\* two clubs, a session that spans midnight (day 0 23:30 to day 1 00:30), one
\* before and one after midnight that overlap it, two areas, per-row rates
KeySouth50 == "Park - South 50 lux"
DailyMapping == FieldMapping @@ (KeySouth50 :> "Field 2")

DailySessions ==
    { << <<0, 23, 0, 0>>, <<0, 23, 45, 0>> >>,
      << <<0, 23, 30, 0>>, <<1, 0, 30, 0>> >>,
      << <<1, 0, 10, 0>>, <<1, 0, 40, 0>> >> }

DailyRows ==
    { Raw(<<"Eagles">>, "Park", l, s[1], s[2], 120, <<"$", "0", ".", "3">>) :
        l \in {<<"North 50 lux">>, <<"North 100 lux">>, <<"South 50 lux">>},
        s \in DailySessions }
    \cup
    { Raw(<<"Hawks">>, "Park", l, <<0, 23, 30, 0>>, <<1, 0, 30, 0>>, 167, <<"0", ".", "2", "5">>) :
        l \in {<<"North 50 lux">>, <<"North 100 lux">>} }
    \cup
    { Raw(<<"Eagles">>, "Park", <<"North 50 lux">>, <<0, 23, 0, 0>>, <<0, 23, 45, 0>>,
          120, <<"n", "/", "a">>) }

InitDaily ==
    /\ rate_per_kwh = None
    /\ scenario_to_area = DailyMapping
    /\ composite_rules = LuxRules
    /\ \E f \in Files(RequiredColumns \cup {"Cost/kWh"}, DailyRows, MaxRows) : Start(f)

SpecDaily == InitDaily /\ [][Next]_vars

\* three lux levels in a chain of rules: 200 lux includes 100 lux, 100 lux
\* includes 50 lux and itself, and the rule of 50 lux has no includes list
Key200 == "Park - North 200 lux"
ChainMapping == FieldMapping @@ (Key200 :> "Field 1")
ChainRules ==
    (Key200 :> [includes |-> <<Key100>>, power_kw |-> 300])
        @@ (Key100 :> [includes |-> <<Key50, Key100>>, power_kw |-> 167])
        @@ (Key50 :> [power_kw |-> 83])

ChainSessions ==
    { << <<0, 9, 0, 0>>, <<0, 9, 30, 0>> >>,
      << <<0, 9, 10, 0>>, <<0, 9, 40, 0>> >>,
      << <<0, 9, 30, 0>>, <<0, 9, 50, 0>> >> }

ChainRows ==
    { Raw(<<"Eagles">>, "Park", l, s[1], s[2], 120, <<>>) :
        l \in {<<"North 50 lux">>, <<"North 100 lux">>, <<"North 200 lux">>},
        s \in ChainSessions }

InitChain ==
    /\ rate_per_kwh = Num(263)
    /\ scenario_to_area = ChainMapping
    /\ composite_rules = ChainRules
    /\ \E f \in Files(RequiredColumns, ChainRows, MaxRows) : Start(f)

SpecChain == InitChain /\ [][Next]_vars

\* rule tables without and with a cycle: a chain 200 > 100 > 50, two scenarios
\* that include each other, and the table above, whose 100 lux rule lists its
\* own scenario
StraightRules ==
    (Key200 :> [includes |-> <<Key100>>, power_kw |-> 300])
        @@ (Key100 :> [includes |-> <<Key50>>, power_kw |-> 167])
        @@ (Key50 :> [power_kw |-> 83])

MutualRules ==
    (Key100 :> [includes |-> <<Key50>>, power_kw |-> 167])
        @@ (Key50 :> [includes |-> <<Key100>>, power_kw |-> 83])

InitTables ==
    /\ rate_per_kwh = Num(263)
    /\ scenario_to_area = ChainMapping
    /\ composite_rules \in {StraightRules, MutualRules, ChainRules}
    /\ \E f \in Files(RequiredColumns, ChainRows, MaxRows) : Start(f)

SpecTables == InitTables /\ [][Next]_vars

\* rate cells that parse and that do not, files with and without the rate
\* column or a required column, rows the filter drops, a bad 'Turn on', a
\* missing 'Turn on' and 'Turn off', with and without an override rate
RateCells == {<<"$", "0", ".", "3">>, <<"1">>, <<"n", "/", "a">>, <<>>}

RateRows ==
    { Raw(<<"Eagles">>, "Park", <<"North 50 lux">>, <<0, 9, 0, 0>>, <<0, 10, 0, 0>>, 120, c) :
        c \in RateCells }
    \cup
    { Raw(club, "Park", <<"North 50 lux">>, <<0, 9, 0, 0>>, <<0, 10, 0, 0>>, 120, <<"1">>) :
        club \in {<<"Club ", "Total">>, <<>>} }
    \cup
    { Raw(<<"Eagles">>, "Park", <<"North 50 lux">>, on, <<0, 10, 0, 0>>, 120, <<"1">>) :
        on \in {<<>>, <<0, 9, 0>>} }
    \cup
    { Raw(<<"Eagles">>, "Park", <<"North 50 lux">>, <<0, 9, 0, 0>>, <<>>, 120, <<"1">>) }

RateColumns ==
    { RequiredColumns, RequiredColumns \cup {"Cost/kWh"},
      (RequiredColumns \ {"Club"}) \cup {"Cost/kWh"} }

InitRates ==
    /\ rate_per_kwh \in {None, Num(500)}
    /\ scenario_to_area = FieldMapping
    /\ composite_rules = LuxRules
    /\ \E cols \in RateColumns : \E f \in Files(cols, RateRows, MaxRows) : Start(f)

SpecRates == InitRates /\ [][Next]_vars

\* mapped and unmapped scenarios, two rows of different facilities that make
\* the same scenario key, and a row without a lighting label
MappingRows ==
    { Raw(<<"Eagles">>, fl[1], fl[2], <<0, 9, 0, 0>>, <<0, 10, 0, 0>>, 120, <<>>) :
        fl \in { <<"Park", <<"North 50 lux">> >>,
                 <<"Park", <<"North 75 lux">> >>,
                 <<"Park", <<"North ", "-", " 9 lux">> >>,
                 <<"Park - North", <<" 9 lux">> >>,
                 <<"Oval", <<>> >> } }

InitMapping ==
    /\ rate_per_kwh = Num(263)
    /\ scenario_to_area = FieldMapping
    /\ composite_rules = LuxRules
    /\ \E f \in Files(RequiredColumns, MappingRows, MaxRows + 1) : Start(f)

SpecMapping == InitMapping /\ [][Next]_vars

-----------------------------------------------------------------------------
(* Properties *)

Done == phase = "done"

Events == 1..Len(annotated)

SameGroup(a, b) ==
    /\ annotated[a].row.Date = annotated[b].row.Date
    /\ annotated[a].row.Club = annotated[b].row.Club

\* the rule of event a's scenario lists event b's scenario
Supersedes(a, b) ==
    /\ a # b
    /\ annotated[a].row.Scenario \in DOMAIN composite_rules
    /\ annotated[b].row.Scenario \in Range(Includes(annotated[a].row.Scenario))

\* the time both events are active, in seconds (0 when there is none)
CommonSeconds(a, b) ==
    LET from == Max(annotated[a].row.TurnOn, annotated[b].row.TurnOn)
        to == Min(annotated[a].row.TurnOff, annotated[b].row.TurnOff)
    IN  IF from < to THEN to - from ELSE 0

\* the line of the summaries about the event at position i of the table
AllItems == UNION {Range(summaries[s].Detailed) : s \in 1..Len(summaries)}
ItemOf(i) == CHOOSE it \in AllItems : it.idx = i

\* the event made of row i of the table, after overlap detection
AnnotatedOf(i) == annotated[CHOOSE k \in Events : annotated[k].idx = i]

\* C1: for two events of one club, one of a superseding scenario and one of a
\* scenario in its includes, the time both are active is covered by a redundant
\* period of the subsumed event, whatever the dates of the two events.
C1_OverlapNeverBilledTwice ==
    Done =>
        \A a \in Events : \A b \in Events :
            ( /\ Supersedes(a, b)
              /\ annotated[a].row.Club = annotated[b].row.Club
              /\ CommonSeconds(a, b) > 0 )
            => \E k \in 1..Len(annotated[b].redundant_periods) :
                  LET p == annotated[b].redundant_periods[k]
                  IN  /\ p.start <= Max(annotated[a].row.TurnOn, annotated[b].row.TurnOn)
                      /\ p.end >= Min(annotated[a].row.TurnOff, annotated[b].row.TurnOff)

\* C2: the sum of the summaries' total costs is the sum of the costs of the
\* events of the table, each event counted once.
C2_CostConservation ==
    Done =>
        /\ \A i \in 1..Len(df) : Cardinality({k \in Events : annotated[k].idx = i}) = 1
        /\ SumF([s \in 1..Len(summaries) |-> summaries[s].TotalCost])
             = SumF([i \in 1..Len(df) |-> EventCost(AnnotatedOf(i))])

\* a group with two areas, one of them with two events and a cost
C2_Witness ==
    /\ Done
    /\ \E s \in 1..Len(summaries) : \E t \in 1..Len(summaries) :
          /\ summaries[s].Date = summaries[t].Date
          /\ summaries[s].Club = summaries[t].Club
          /\ summaries[s].Area # summaries[t].Area
          /\ Len(summaries[s].Detailed) >= 2
          /\ summaries[s].TotalCost # NaN /\ summaries[s].TotalCost.v > 0
          /\ summaries[t].TotalCost # NaN /\ summaries[t].TotalCost.v > 0

\* C3: with one superseding event A over B in the group, and A and B active
\* together for exactly k minutes, the billable minutes of B are its total
\* session minutes less k.
C3_OverlapOfKMinutesBillsKLess ==
    Done =>
        \A a \in Events : \A b \in Events :
            ( /\ SameGroup(a, b)
              /\ Supersedes(a, b)
              /\ \A c \in Events \ {a} : ~(SameGroup(c, b) /\ Supersedes(c, b))
              /\ CommonSeconds(a, b) % 60 = 0 )
            => calculate_billable_duration(annotated[b]).billable
                 = RoundHalfEven(TotalSeconds(annotated[b]), 60) - CommonSeconds(a, b) \div 60

C9_NoRuleBillsTotal ==
    Done =>
        \A b \in Events :
            (\A a \in Events : ~(SameGroup(a, b) /\ Supersedes(a, b)))
            => /\ annotated[b].redundant_periods = <<>>
               /\ calculate_billable_duration(annotated[b])
                    = [ billable  |-> RoundHalfEven(TotalSeconds(annotated[b]), 60),
                        redundant |-> 0,
                        notes     |-> <<>> ]
               /\ ItemOf(annotated[b].idx).minutes
                    = RoundHalfEven(TotalSeconds(annotated[b]), 60)
               /\ ItemOf(annotated[b].idx).redundant = 0

\* an event of a scenario no rule lists, active together with an event whose
\* scenario has a rule
C9_Witness ==
    /\ Done
    /\ \E a \in Events : \E b \in Events :
          /\ a # b
          /\ SameGroup(a, b)
          /\ annotated[a].row.Scenario \in DOMAIN composite_rules
          /\ ~Supersedes(a, b)
          /\ CommonSeconds(a, b) > 0
          /\ annotated[b].redundant_periods = <<>>
          /\ ItemOf(annotated[b].idx).minutes > 0

\* C10: an event has one redundant period per superseding event of its group
\* that is active together with it for some time, each of positive length;
\* a superseding event that only touches it, or is apart from it, adds none.
C10_TouchingAddsNoPeriod ==
    Done =>
        \A b \in Events :
            /\ Len(annotated[b].redundant_periods)
                 = Cardinality({a \in Events : /\ SameGroup(a, b)
                                               /\ Supersedes(a, b)
                                               /\ CommonSeconds(a, b) > 0})
            /\ \A k \in 1..Len(annotated[b].redundant_periods) :
                  annotated[b].redundant_periods[k].start
                    < annotated[b].redundant_periods[k].end

\* a superseding event that ends when the subsumed event starts
C10_Witness ==
    /\ Done
    /\ \E a \in Events : \E b \in Events :
          /\ SameGroup(a, b)
          /\ Supersedes(a, b)
          /\ annotated[a].row.TurnOff = annotated[b].row.TurnOn
          /\ annotated[a].row.TurnOn < annotated[a].row.TurnOff
          /\ annotated[b].row.TurnOn < annotated[b].row.TurnOff
          /\ annotated[b].redundant_periods = <<>>

ThreeTierRate(event) ==
    IF rate_per_kwh # None THEN rate_per_kwh
    ELSE IF event.row.Rate.kind = "num" THEN event.row.Rate
    ELSE Num(FallbackRate)

\* C5: the cost of every event is computed with the override rate if there is
\* one, else with the row's rate if it was parsed, else with the fallback rate.
C5_RateInThreeTiers ==
    Done =>
        \A b \in Events :
            ItemOf(annotated[b].idx).cost
              = CostOf(ItemOf(annotated[b].idx).minutes, annotated[b].row.Power,
                       ThreeTierRate(annotated[b]))

\* C6: a rate cell that does not parse does not fail the parse, and without an
\* override the cost of its event is the cost at the fallback rate: a number.
C6_UnparsedRateBilledAtFallback ==
    /\ (phase = "invalid" /\ RequiredColumns \subseteq uploaded_file.columns)
          => \/ SelectSeq(uploaded_file.rows, KeepRow) = <<>>
             \/ \E k \in 1..Len(uploaded_file.rows) :
                   KeepRow(uploaded_file.rows[k]) /\ BadTimestamp(uploaded_file.rows[k])
    /\ (Done /\ rate_per_kwh = None)
          => /\ \A b \in Events :
                   annotated[b].row.Rate = NaN
                   => ItemOf(annotated[b].idx).cost
                        = CostOf(ItemOf(annotated[b].idx).minutes,
                                 annotated[b].row.Power, Num(FallbackRate))
             /\ \A s \in 1..Len(summaries) : summaries[s].TotalCost.kind = "num"

Permuted(p) == [k \in 1..Len(df) |-> df[p[k]]]

Entries(list) ==
    {[scenario |-> list[k].scenario, count |-> list[k].count] : k \in 1..Len(list)}

\* the first row of the table with the scenario key
FirstRowOf(scenario) ==
    CHOOSE i \in 1..Len(df) :
        df[i].Scenario = scenario /\ \A j \in 1..(i - 1) : df[j].Scenario # scenario

\* C7: for every permutation of the rows, find_unmapped_scenarios returns the
\* same list.
C7_SameListForEveryOrder ==
    phase = "audited" =>
        \A p \in Permutations(1..Len(df)) :
            find_unmapped_scenarios(Permuted(p)) = unmapped

\* C7, amended: for every permutation of the rows the list has the same
\* entries, one per distinct unmapped scenario key with the number of its
\* rows, in descending order of count; entries of equal count are in the order
\* in which their keys first appear in the table, and the facility of an entry
\* is that of the first row with its key.
C7_SameEntriesSortedByCount ==
    phase = "audited" =>
        /\ \A p \in Permutations(1..Len(df)) :
              LET list == find_unmapped_scenarios(Permuted(p))
              IN  Entries(list) = Entries(unmapped) /\ Len(list) = Len(unmapped)
        /\ Entries(unmapped)
             = { [scenario |-> df[i].Scenario,
                  count |-> Cardinality({j \in 1..Len(df) : df[j].Scenario = df[i].Scenario})] :
                 i \in {j \in 1..Len(df) : IsUnmappedRow(df[j])} }
        /\ \A j \in 1..Len(unmapped) : \A k \in 1..Len(unmapped) :
              j < k =>
                 /\ unmapped[j].scenario # unmapped[k].scenario
                 /\ unmapped[j].count >= unmapped[k].count
                 /\ unmapped[j].count = unmapped[k].count
                      => FirstRowOf(unmapped[j].scenario) < FirstRowOf(unmapped[k].scenario)
        /\ \A k \in 1..Len(unmapped) :
              unmapped[k].facility = df[FirstRowOf(unmapped[k].scenario)].Facility

\* a gap list of two keys, the first seen more often than the second, from a
\* table that has the rarer key first
C7_Witness ==
    /\ phase = "audited"
    /\ Len(unmapped) = 2
    /\ unmapped[1].count > unmapped[2].count
    /\ df[1].Scenario = unmapped[2].scenario

-----------------------------------------------------------------------------
(* Properties of the summaries *)

Summaries == 1..Len(summaries)

Triple(s) == <<summaries[s].Date, summaries[s].Club, summaries[s].Area>>

\* the rows of the table that belong to summary s, in table order
RowsOf(s) ==
    SelectSeq([i \in 1..Len(df) |-> i],
              LAMBDA i : /\ df[i].Date = summaries[s].Date
                         /\ df[i].Club = summaries[s].Club
                         /\ Mapped(df[i].Scenario)
                         /\ scenario_to_area[df[i].Scenario] = summaries[s].Area)

\* every row of the file is kept by the filter, so row i of the table is row i
\* of the file
AllRowsKept == Len(df) = Len(uploaded_file.rows)

\* C11: the summaries are one per (date, club, area) that has an event, the
\* date being the calendar day of the 'Turn on' cell and the area the mapping of
\* the scenario key; no two summaries have the same (date, club, area).
C11_OneSummaryPerDateClubArea ==
    (Done /\ AllRowsKept) =>
        /\ {Triple(s) : s \in Summaries}
             = { << uploaded_file.rows[i].TurnOn[1], df[i].Club,
                    scenario_to_area[df[i].Scenario] >> : i \in 1..Len(df) }
        /\ \A s \in Summaries : \A t \in Summaries : s # t => Triple(s) # Triple(t)

\* a session that spans midnight, summarised under its start date, next to a
\* summary of another date
C11_Witness ==
    /\ Done
    /\ \E i \in 1..Len(df) : \E s \in Summaries : \E t \in Summaries :
          /\ DateOf(df[i].TurnOff) # DateOf(df[i].TurnOn)
          /\ Triple(s) = <<DateOf(df[i].TurnOn), df[i].Club, scenario_to_area[df[i].Scenario]>>
          /\ summaries[t].Date = DateOf(df[i].TurnOff)
          /\ summaries[t].Club = df[i].Club

SetMin(S) == CHOOSE t \in S : \A u \in S : t <= u
SetMax(S) == CHOOSE t \in S : \A u \in S : t >= u

\* C12: the start time of a summary is the time of day of the earliest 'Turn on'
\* and its end time that of the latest 'Turn off' among the events of its
\* bucket, whatever their order.
C12_StartEarliestEndLatest ==
    Done =>
        \A s \in Summaries :
            /\ summaries[s].StartTime
                 = HHMM(SetMin({df[i].TurnOn : i \in Range(RowsOf(s))}))
            /\ summaries[s].EndTime
                 = HHMM(SetMax({df[i].TurnOff : i \in Range(RowsOf(s))}))

\* a bucket whose first event is not the earliest to start and whose last event
\* is not the latest to end, the latest end being after midnight
C12_Witness ==
    /\ Done
    /\ \E s \in Summaries :
          LET rows == RowsOf(s)
              n    == Len(rows)
          IN  /\ n >= 2
              /\ \E k \in 2..n : df[rows[k]].TurnOn < df[rows[1]].TurnOn
              /\ \E k \in 1..(n - 1) :
                    /\ df[rows[k]].TurnOff > df[rows[n]].TurnOff
                    /\ HHMM(df[rows[k]].TurnOff) < HHMM(df[rows[n]].TurnOff)
                    /\ summaries[s].EndTime = HHMM(df[rows[k]].TurnOff)

ItemIdxs(items) == [k \in 1..Len(items) |-> items[k].idx]

\* C13: the detailed line of a summary has one item per event of the bucket,
\* the short line one item per event of the bucket billed more than 0 minutes,
\* both in table order.
C13_ShortPositiveDetailedAll ==
    Done =>
        \A s \in Summaries :
            /\ ItemIdxs(summaries[s].Detailed) = RowsOf(s)
            /\ ItemIdxs(summaries[s].Short)
                 = SelectSeq(RowsOf(s),
                     LAMBDA i : calculate_billable_duration(AnnotatedOf(i)).billable > 0)
            /\ \A k \in 1..Len(summaries[s].Short) :
                  summaries[s].Short[k] \in Range(summaries[s].Detailed)

\* a bucket with a fully redundant event (0 minutes) that is in the detailed
\* line only, listed before an event that starts earlier
C13_Witness ==
    /\ Done
    /\ \E s \in Summaries :
          /\ Len(summaries[s].Detailed) >= 2
          /\ summaries[s].Detailed[1].minutes = 0
          /\ summaries[s].Detailed[1].redundant > 0
          /\ Len(summaries[s].Short) = Len(summaries[s].Detailed) - 1
          /\ df[summaries[s].Detailed[2].idx].TurnOn < df[summaries[s].Detailed[1].idx].TurnOn

-----------------------------------------------------------------------------
(* Properties of the events and their redundant periods *)

Periods(b) == annotated[b].redundant_periods

\* the superseding events of event b's group that are active together with it
SupersedersOf(b) ==
    {a \in Events : SameGroup(a, b) /\ Supersedes(a, b) /\ CommonSeconds(a, b) > 0}

RECURSIVE SumCommonSeconds(_, _)
SumCommonSeconds(S, b) ==
    IF S = {} THEN 0
    ELSE LET a == CHOOSE x \in S : TRUE
         IN  CommonSeconds(a, b) + SumCommonSeconds(S \ {a}, b)

\* C14: every event that is billed has its 'Turn on' before its 'Turn off'; a
\* row whose 'Turn off' is not after its 'Turn on' is never billed.
C14_BilledEventsEndAfterStart ==
    Done => \A b \in Events : annotated[b].row.TurnOn < annotated[b].row.TurnOff

\* C15: every redundant period of an event O lies inside O's session, with
\* O.turnOn <= start < end <= O.turnOff, it is the time O shares with a
\* superseding event of its group, and its reason is 'Included in ' followed by
\* the scenario key of that event.
C15_PeriodInsideSession ==
    Done =>
        \A b \in Events : \A k \in 1..Len(Periods(b)) :
            LET rp == Periods(b)[k]
            IN  /\ annotated[b].row.TurnOn <= rp.start
                /\ rp.start < rp.end
                /\ rp.end <= annotated[b].row.TurnOff
                /\ \E a \in SupersedersOf(b) :
                      /\ rp.start = Max(annotated[a].row.TurnOn, annotated[b].row.TurnOn)
                      /\ rp.end = Min(annotated[a].row.TurnOff, annotated[b].row.TurnOff)
                      /\ rp.reason = "Included in " \o annotated[a].row.Scenario

\* a superseding event that starts before and ends after the subsumed event,
\* whose period is cut to the subsumed event's session
C15_Witness ==
    /\ Done
    /\ \E a \in Events : \E b \in Events :
          /\ a \in SupersedersOf(b)
          /\ annotated[a].row.TurnOn < annotated[b].row.TurnOn
          /\ annotated[a].row.TurnOff > annotated[b].row.TurnOff
          /\ Periods(b) = << [ start  |-> annotated[b].row.TurnOn,
                               end    |-> annotated[b].row.TurnOff,
                               reason |-> "Included in " \o Key100 ] >>

PairwiseApart(periods) ==
    \A j \in 1..Len(periods) : \A k \in 1..Len(periods) :
        j # k => \/ periods[j].end <= periods[k].start
                 \/ periods[k].end <= periods[j].start

\* C17: an event whose redundant periods do not overlap one another has
\* redundant minutes not above its total minutes and billable minutes not
\* below 0.
C17_ApartPeriodsBillableNotNegative ==
    Done =>
        \A b \in Events :
            PairwiseApart(Periods(b)) =>
                /\ calculate_billable_duration(annotated[b]).redundant
                     <= RoundHalfEven(TotalSeconds(annotated[b]), 60)
                /\ calculate_billable_duration(annotated[b]).billable >= 0

\* C18: an event that two or more superseding events overlap has one redundant
\* period per superseding event; its redundant minutes are the sum of the
\* lengths of the periods, double-covered time counted twice, its billable
\* minutes are its total less that sum, below 0 when the sum is larger, and that
\* figure is what its cost, the summary's duration and the summary's total cost
\* are made of.
C18_DoubleCoverCarriedUnclamped ==
    Done =>
        /\ \A b \in Events :
              LET red  == SumCommonSeconds(SupersedersOf(b), b)
                  mins == RoundHalfEven(TotalSeconds(annotated[b]) - red, 60)
                  it   == ItemOf(annotated[b].idx)
              IN  /\ Len(Periods(b)) = Cardinality(SupersedersOf(b))
                  /\ it.redundant = RoundHalfEven(red, 60)
                  /\ it.minutes = mins
                  /\ it.cost = Num(RoundHalfEven(mins * annotated[b].row.Power
                                                   * rate_per_kwh.v, 60000))
        /\ \A s \in Summaries :
              LET items == summaries[s].Detailed
              IN  /\ summaries[s].Duration
                       = SumSeq([k \in 1..Len(items) |-> items[k].minutes])
                  /\ summaries[s].TotalCost
                       = Num(SumSeq([k \in 1..Len(items) |-> items[k].cost.v]))

\* an event covered twice over its whole session: -1 billable minutes, a cost
\* below 0, and a summary whose duration and total cost are lowered by it
C18_Witness ==
    /\ Done
    /\ \E b \in Events : \E s \in Summaries :
          LET it == ItemOf(annotated[b].idx)
          IN  /\ Cardinality(SupersedersOf(b)) = 2
              /\ annotated[b].row.TurnOn < annotated[b].row.TurnOff
              /\ it.redundant = 2
              /\ it.minutes = -1
              /\ it.cost.v < 0
              /\ it \in Range(summaries[s].Detailed)
              /\ \E a1 \in SupersedersOf(b) : \E a2 \in SupersedersOf(b) :
                    LET i1 == ItemOf(annotated[a1].idx)
                        i2 == ItemOf(annotated[a2].idx)
                    IN  /\ a1 # a2
                        /\ i1.minutes > 0 /\ i2.minutes > 0
                        /\ summaries[s].Duration = i1.minutes + i2.minutes - 1
                        /\ summaries[s].TotalCost.v = i1.cost.v + i2.cost.v + it.cost.v

\* the rule keyed by scenario x has scenario y in its includes list
Lists(x, y) ==
    /\ x \in DOMAIN composite_rules
    /\ "includes" \in DOMAIN composite_rules[x]
    /\ \E n \in 1..Len(composite_rules[x].includes) : composite_rules[x].includes[n] = y

\* the other events of event b's group that are active together with it
OthersActiveWith(b) ==
    {a \in Events : a # b /\ SameGroup(a, b) /\ CommonSeconds(a, b) > 0}

\* C16: event E shortens event O only when the rule keyed by E's scenario lists
\* O's scenario: a rule in the other direction, or a chain of rules from E's
\* scenario to O's, shortens nothing, and an event never shortens itself.  The
\* periods of O are one per other event of its group that is active with it
\* and whose rule lists O's scenario.
C16_DirectionalNotTransitive ==
    Done =>
        \A b \in Events :
            /\ Len(Periods(b))
                 = Cardinality({a \in OthersActiveWith(b) :
                                  Lists(annotated[a].row.Scenario, annotated[b].row.Scenario)})
            /\ \A k \in 1..Len(Periods(b)) :
                  \E a \in OthersActiveWith(b) :
                      /\ Lists(annotated[a].row.Scenario, annotated[b].row.Scenario)
                      /\ Periods(b)[k].reason = "Included in " \o annotated[a].row.Scenario

\* a 200 lux, a 100 lux and a 50 lux event active together: the 200 lux event
\* is not shortened, the 100 lux event only by the 200 lux one (not by itself,
\* though its rule lists its own scenario), the 50 lux event only by the
\* 100 lux one
C16_Witness ==
    /\ Done
    /\ \E a \in Events : \E m \in Events : \E c \in Events :
          /\ annotated[a].row.Scenario = Key200
          /\ annotated[m].row.Scenario = Key100
          /\ annotated[c].row.Scenario = Key50
          /\ CommonSeconds(a, m) > 0 /\ CommonSeconds(m, c) > 0 /\ CommonSeconds(a, c) > 0
          /\ Lists(Key200, Key100) /\ Lists(Key100, Key50) /\ Lists(Key100, Key100)
          /\ ~Lists(Key200, Key50) /\ ~Lists(Key50, Key100) /\ ~Lists(Key100, Key200)
          /\ Periods(a) = <<>>
          /\ Len(Periods(m)) = 1
          /\ Periods(m)[1].reason = "Included in " \o Key200
          /\ Len(Periods(c)) = 1
          /\ Periods(c)[1].reason = "Included in " \o Key100

-----------------------------------------------------------------------------
(* Properties of the rounding *)

\* the billable time of event b before it is rounded, in seconds
BillableSeconds(b) == TotalSeconds(annotated[b]) - RedundantSeconds(Periods(b))

\* C19 as stated: the cost of an event is that of its exact billable duration,
\* fractions of a minute included.
C19_CostOfExactDuration ==
    Done =>
        \A b \in Events :
            ItemOf(annotated[b].idx).cost
              = Num(RoundHalfEven(BillableSeconds(b) * annotated[b].row.Power
                                    * rate_per_kwh.v, 3600000))

\* C19: the cost of an event is that of its billable minutes after they are
\* rounded to a whole number, the figure shown next to it:
\* cost = round(minutes / 60 * power * rate, 2).
C19_CostOfRoundedMinutes ==
    Done =>
        \A b \in Events :
            LET it == ItemOf(annotated[b].idx)
            IN  /\ it.minutes = RoundHalfEven(BillableSeconds(b), 60)
                /\ it.cost = Num(RoundHalfEven(it.minutes * annotated[b].row.Power
                                                 * rate_per_kwh.v, 60000))

\* a session of two and a half minutes billed as 2 minutes, for fewer cents
\* than two and a half minutes cost
C19_Witness ==
    /\ Done
    /\ \E b \in Events :
          LET it == ItemOf(annotated[b].idx)
          IN  /\ BillableSeconds(b) = 150
              /\ it.minutes = 2
              /\ it.cost.v = RoundHalfEven(2 * annotated[b].row.Power * rate_per_kwh.v, 60000)
              /\ it.cost.v < RoundHalfEven(150 * annotated[b].row.Power
                                             * rate_per_kwh.v, 3600000)

\* C20: the billable minutes and the redundant minutes of an event add up to
\* its total minutes, each rounded to a whole number.
C20_BillablePlusRedundantIsTotal ==
    Done =>
        \A b \in Events :
            LET it == ItemOf(annotated[b].idx)
            IN  it.minutes + it.redundant = RoundHalfEven(TotalSeconds(annotated[b]), 60)

-----------------------------------------------------------------------------
(* Properties of the rule table *)

RuleKeys ==
    DOMAIN composite_rules
        \cup UNION {Range(composite_rules[x].includes) :
                      x \in {y \in DOMAIN composite_rules :
                               "includes" \in DOMAIN composite_rules[y]}}

\* the scenarios that a chain of at most n rules leads to from scenario x
RECURSIVE ReachedFrom(_, _)
ReachedFrom(x, n) ==
    IF n = 0 THEN {}
    ELSE LET direct == {y \in RuleKeys : Lists(x, y)}
         IN  direct \cup UNION {ReachedFrom(y, n - 1) : y \in direct}

\* no scenario includes itself, directly or through other rules
Acyclic == \A x \in RuleKeys : x \notin ReachedFrom(x, Cardinality(RuleKeys))

ActiveAt(b, t) == annotated[b].row.TurnOn <= t /\ t < annotated[b].row.TurnOff

RedundantAt(b, t) ==
    \E k \in 1..Len(Periods(b)) : Periods(b)[k].start <= t /\ t < Periods(b)[k].end

\* the instants at which the set of active events can change
Instants ==
    {annotated[b].row.TurnOn : b \in Events} \cup {annotated[b].row.TurnOff : b \in Events}

\* C21: with a rule table that has no cycle, in every (date, club) group every
\* instant at which an event is active is outside the redundant periods of at
\* least one event of the group that is active at that instant.
C21_SomeEventBillsEveryActiveInstant ==
    (Done /\ Acyclic) =>
        \A t \in Instants : \A b \in Events :
            ActiveAt(b, t) =>
                \E a \in Events :
                    /\ SameGroup(a, b)
                    /\ ActiveAt(a, t)
                    /\ ~RedundantAt(a, t)

\* a table without a cycle and an instant at which a 200 lux, a 100 lux and a
\* 50 lux event are active: the last two are redundant there, the first is not
C21_Witness ==
    /\ Done
    /\ Acyclic
    /\ \E t \in Instants : \E a \in Events : \E m \in Events : \E c \in Events :
          /\ annotated[a].row.Scenario = Key200
          /\ annotated[m].row.Scenario = Key100
          /\ annotated[c].row.Scenario = Key50
          /\ ActiveAt(a, t) /\ ActiveAt(m, t) /\ ActiveAt(c, t)
          /\ ~RedundantAt(a, t)
          /\ RedundantAt(m, t)
          /\ RedundantAt(c, t)

====
